---- MODULE Spec2Model ----
(***************************************************************************)
(* Document approval workflow backend (server2.js): the upload, approve    *)
(* and review handlers over the documents table, admin-login, and the OTP  *)
(* store.                                                                  *)
(* Every await of a handler is one step of the request that runs it; the   *)
(* synchronous code between two awaits is atomic (one JavaScript thread).  *)
(* The awaits that follow a handler's last database access on documents    *)
(* (the users lookup and the mail relay) read and write nothing another    *)
(* request sees, and are taken as one step with every outcome of each.     *)
(* Timestamps are one token: a column is NULL or holds the time of the     *)
(* request that wrote it.                                                  *)
(***************************************************************************)
EXTENDS Integers, Sequences, FiniteSets, TLC

\* ------------------------------------------------------------- bounds
MaxUploads == 2     \* PDF uploads accepted by multer in one behaviour
MaxProcs == 2       \* requests in flight at the same time
MaxOtpProcs == 2    \* send-otp requests in flight at the same time
NumCodes == 2       \* distinct values Math.random() yields in one behaviour

\* ------------------------------------------------------------- values
NULL == "NULL"                       \* SQL NULL / JavaScript null, undefined
Procs == 1..MaxProcs
Uploaders == {"alice", "ghost"}      \* uploadedBy values a caller passes
Approvers == {"bob"}
Reviewers == {"carol"}
Decisions == {"Approved", "Unapproved"}             \* approval_status in the body
ReviewDecisions == {"Approved", "Rejected"}          \* review_status in the body
File(base, ext) == [base |-> base, ext |-> ext]
NoFile == [base |-> NULL, ext |-> NULL]                \* a request without a file part
Files == {File("a", ".PDF"), File("b", ".txt"), NoFile}  \* originalname of the file part
NoTime == <<>>                       \* a NULL timestamp column
NoLink == <<>>                       \* a NULL document_link
DocIds == 1..MaxUploads              \* :id values a caller passes
ReviewerEmail == "reviewer@x"        \* process.env.REVIEWER_EMAIL
ApproverEmail == "approver@x"        \* process.env.APPROVER_EMAIL

\* users table: username -> email, for the usernames that exist
UserEmail(username) == IF username = "alice" THEN "alice@x" ELSE NULL

VARIABLES
  docs,      \* documents table: row i has id i
  drive,     \* Google Drive: upload id -> "none" | "private" | "public"
  tmp,       \* uploads/ directory: upload ids whose local copy exists
  nUploads,  \* files multer has written so far
  req,       \* the requests in flight, one slot per connection
  otpStore,  \* email -> code, NULL when the key is absent
  otpReq,    \* the OTP requests in flight
  otpLog,    \* history of the OTP store: last write per key, codes used, last verify
  snapshot   \* history: the table and the requests a concurrent run started from

vars == <<docs, drive, tmp, nUploads, req, otpStore, otpReq, otpLog, snapshot>>
wfVars == <<docs, drive, tmp, nUploads, req>>
otpVars == <<otpStore, otpReq, otpLog>>

\* ------------------------------------------------------------- requests
Idle ==
  [op |-> "none", pc |-> "idle", id |-> 0, user |-> NULL, decision |-> NULL,
   actor |-> NULL, mails |-> <<>>, status |-> 0, wrote |-> FALSE, file |-> NoFile,
   password |-> NULL]

Free(p) == req[p].pc \in {"idle", "done"}

\* res.status(code).json(...): the handler's response; its locals end with it
Respond(r, code) ==
  [Idle EXCEPT !.op = r.op, !.pc = "done", !.status = code, !.mails = r.mails,
               !.wrote = r.wrote,
               !.decision = IF code = 200 /\ r.op = "approve" THEN r.decision ELSE NULL]

\* an async handler throws outside a try block: its promise rejects. Express 4
\* drops the rejection and the request is never answered; Express 5 hands it to
\* the default error handler, which answers 500. The source does not fix the
\* version.
Rejected(r) == {[Idle EXCEPT !.op = r.op, !.pc = "hung"], Respond(r, 500)}

\* transporter.sendMail(mailOptions) called with these recipients
Mail(role, addrs, ok) == [role |-> role, to |-> addrs, ok |-> ok]

\* nodemailer rejects a message none of whose recipients is an address
Deliverable(addrs) == \E a \in addrs : a # NULL

\* mutant of AfterMailFailure: the catch undoes the last insert
AfterMailFailure_Rollback(d) == IF d = <<>> THEN d ELSE SubSeq(d, 1, Len(d) - 1)

\* what a failed sendMail leaves of the documents table: the catch blocks log only
AfterMailFailure(d) == d

\* one sendMail call is recorded with its outcome
Notified(r, role, addrs, ok) == [r EXCEPT !.mails = Append(@, Mail(role, addrs, ok))]

\* getUserEmailByUsername: the email of the user, null when there is none or the
\* query throws
getUserEmailByUsername(username, dbOk) == IF dbOk THEN UserEmail(username) ELSE NULL

\* new Date(): the time of the request
Now == <<"now">>

\* ------------------------------------------------------------- upload
\* path.extname(file.originalname).toLowerCase()
ToLowerCase(ext) == IF ext = ".PDF" THEN ".pdf" ELSE ext

\* mutant of fileFilter: every file is accepted
fileFilter_AnyFile(f) == TRUE

\* multer's fileFilter: the extension of originalname, whatever its case
fileFilter(f) == ToLowerCase(f.ext) = ".pdf"

\* `https://drive.google.com/uc?id=${driveResponse.data.id}`
DocumentLink(driveId) == <<"https://drive.google.com/uc?id=", driveId>>

\* mutant of InsertDocument: the two status columns are left out of the INSERT
InsertDocument_NoStatus(d, name, link, uploadedBy, t) ==
  Append(d, [document_name |-> name, document_link |-> link,
             uploaded_by |-> uploadedBy, upload_time |-> t,
             approval_status |-> NULL, approved_by |-> NULL,
             approval_time |-> NoTime, review_status |-> NULL,
             reviewer |-> NULL, review_time |-> NoTime])

\* INSERT INTO documents (document_name, document_link, uploaded_by, upload_time,
\*   approval_status, review_status): the other columns default to NULL
InsertDocument(d, name, link, uploadedBy, t) ==
  Append(d, [document_name |-> name, document_link |-> link,
             uploaded_by |-> uploadedBy, upload_time |-> t,
             approval_status |-> "Pending", approved_by |-> NULL,
             approval_time |-> NoTime, review_status |-> "Pending",
             reviewer |-> NULL, review_time |-> NoTime])

\* multer runs first: it rejects a non-PDF, writes a PDF to uploads/, and the
\* handler then runs to its first await (the Drive upload)
UploadStart(p, uploadedBy, f) ==
  /\ Free(p)
  /\ IF f = NoFile
       THEN \* req.file is undefined: line 389 throws, outside the try block
            /\ \E out \in Rejected([Idle EXCEPT !.op = "upload"]) :
                 req' = [req EXCEPT ![p] = out]
            /\ UNCHANGED <<tmp, nUploads>>
       ELSE IF ~fileFilter(f)
         THEN \* cb(new Error(...)): express answers 500, the handler never runs
              /\ req' = [req EXCEPT ![p] = Respond([Idle EXCEPT !.op = "upload"], 500)]
              /\ UNCHANGED <<tmp, nUploads>>
         ELSE /\ nUploads < MaxUploads
              /\ nUploads' = nUploads + 1
              /\ tmp' = tmp \cup {nUploads + 1}
              /\ req' = [req EXCEPT ![p] = [Idle EXCEPT !.op = "upload",
                            !.pc = "drive_create", !.id = nUploads + 1,
                            !.user = uploadedBy, !.file = f]]
  /\ UNCHANGED <<docs, drive>>
  /\ UNCHANGED <<otpVars, snapshot>>

\* await driveService.files.create(...)
UploadDriveCreate(p, ok) ==
  /\ req[p].op = "upload" /\ req[p].pc = "drive_create"
  /\ IF ok
       THEN /\ drive' = [drive EXCEPT ![req[p].id] = "private"]
            /\ req' = [req EXCEPT ![p].pc = "drive_permission"]
       ELSE /\ req' = [req EXCEPT ![p] = Respond(@, 500)]
            /\ UNCHANGED drive
  /\ UNCHANGED <<docs, tmp, nUploads>>
  /\ UNCHANGED <<otpVars, snapshot>>

\* await driveService.permissions.create(...), then the link and istDate1
UploadDrivePermission(p, ok) ==
  /\ req[p].op = "upload" /\ req[p].pc = "drive_permission"
  /\ IF ok
       THEN /\ drive' = [drive EXCEPT ![req[p].id] = "public"]
            /\ req' = [req EXCEPT ![p].pc = "insert"]
       ELSE /\ req' = [req EXCEPT ![p] = Respond(@, 500)]
            /\ UNCHANGED drive
  /\ UNCHANGED <<docs, tmp, nUploads>>
  /\ UNCHANGED <<otpVars, snapshot>>

\* mutant of UploadInsert: the catch of a failed INSERT deletes the local copy
UploadInsert_UnlinkInCatch(p, ok) ==
  /\ req[p].op = "upload" /\ req[p].pc = "insert"
  /\ IF ok
       THEN /\ docs' = InsertDocument(docs, req[p].file, DocumentLink(req[p].id),
                                      req[p].user, Now)
            /\ req' = [req EXCEPT ![p].pc = "notify", ![p].wrote = TRUE]
            /\ UNCHANGED tmp
       ELSE /\ req' = [req EXCEPT ![p] = Respond(@, 500)]
            /\ tmp' = tmp \ {req[p].id}
            /\ UNCHANGED docs
  /\ UNCHANGED <<drive, nUploads>>
  /\ UNCHANGED <<otpVars, snapshot>>

\* mutant of UploadInsert: a failed INSERT is swallowed and the handler goes on to
\* the notification and the success response
UploadInsert_Swallow(p, ok) ==
  /\ req[p].op = "upload" /\ req[p].pc = "insert"
  /\ docs' = (IF ok THEN InsertDocument(docs, req[p].file, DocumentLink(req[p].id),
                                        req[p].user, Now)
                    ELSE docs)
  /\ req' = [req EXCEPT ![p].pc = "notify", ![p].wrote = ok]
  /\ UNCHANGED <<drive, tmp, nUploads>>
  /\ UNCHANGED <<otpVars, snapshot>>

\* await db.execute(INSERT ...), then sendEmailNotification starts
UploadInsert(p, ok) ==
  /\ req[p].op = "upload" /\ req[p].pc = "insert"
  /\ IF ok
       THEN /\ docs' = InsertDocument(docs, req[p].file, DocumentLink(req[p].id),
                                           req[p].user, Now)
            /\ req' = [req EXCEPT ![p].pc = "notify", ![p].wrote = TRUE]
       ELSE /\ req' = [req EXCEPT ![p] = Respond(@, 500)]
            /\ UNCHANGED docs
  /\ UNCHANGED <<drive, tmp, nUploads>>
  /\ UNCHANGED <<otpVars, snapshot>>

\* await sendEmailNotification(...): sendMail's failure is caught and logged;
\* then fs.unlinkSync(localPath), which finds the file multer wrote, and the
\* success response
UploadNotify(p, ok) ==
  /\ req[p].op = "upload" /\ req[p].pc = "notify"
  /\ docs' = (IF ok THEN docs ELSE AfterMailFailure(docs))
  /\ tmp' = tmp \ {req[p].id}
  /\ req' = [req EXCEPT ![p] =
               Respond(Notified(@, "approver", {ApproverEmail}, ok), 200)]
  /\ UNCHANGED <<drive, nUploads>>
  /\ UNCHANGED <<otpVars, snapshot>>

\* ------------------------------------------------------------- approve
\* mutant of ApproveUpdateRows: the UPDATE has lost its WHERE clause
ApproveUpdateRows_NoWhere(d, id, decision, approver, t) ==
  [i \in 1..Len(d) |->
     [d[i] EXCEPT !.approval_status = decision, !.approved_by = approver,
                  !.approval_time = t]]

\* UPDATE documents SET approval_status = ?, approved_by = ?, approval_time = ?
\*  WHERE id = ?
ApproveUpdateRows(d, id, decision, approver, t) ==
  [i \in 1..Len(d) |->
     IF i = id
       THEN [d[i] EXCEPT !.approval_status = decision, !.approved_by = approver,
                         !.approval_time = t]
       ELSE d[i]]

\* result.affectedRows of that UPDATE
ApproveAffectedRows(d, id) == Cardinality({i \in 1..Len(d) : i = id})

\* the handler up to its first await: istDate is read here
ApproveStart(p, id, decision, approver) ==
  /\ Free(p)
  /\ req' = [req EXCEPT ![p] = [Idle EXCEPT !.op = "approve", !.pc = "update",
                !.id = id, !.decision = decision, !.actor = approver]]
  /\ UNCHANGED <<docs, drive, tmp, nUploads>>
  /\ UNCHANGED <<otpVars, snapshot>>

\* await db.execute(UPDATE ...), then the affectedRows test
ApproveUpdate(p, ok) ==
  /\ req[p].op = "approve" /\ req[p].pc = "update"
  /\ IF ~ok
       THEN /\ req' = [req EXCEPT ![p] = Respond(@, 500)]
            /\ UNCHANGED docs
       ELSE /\ docs' = ApproveUpdateRows(docs, req[p].id, req[p].decision,
                                         req[p].actor, Now)
            /\ IF ApproveAffectedRows(docs, req[p].id) = 0
                 THEN req' = [req EXCEPT ![p] = Respond(@, 404)]
                 ELSE req' = [req EXCEPT ![p].pc = "select", ![p].wrote = TRUE]
  /\ UNCHANGED <<drive, tmp, nUploads>>
  /\ UNCHANGED <<otpVars, snapshot>>

\* await db.execute(SELECT * FROM documents WHERE id = ?), then the !doc test
ApproveSelect(p, ok) ==
  /\ req[p].op = "approve" /\ req[p].pc = "select"
  /\ IF ~ok
       THEN req' = [req EXCEPT ![p] = Respond(@, 500)]
       ELSE IF req[p].id \notin 1..Len(docs)
         THEN req' = [req EXCEPT ![p] = Respond(@, 404)]
         ELSE req' = [req EXCEPT ![p].pc = "notify",
                                 ![p].user = docs[req[p].id].uploaded_by]
  /\ UNCHANGED <<docs, drive, tmp, nUploads>>
  /\ UNCHANGED <<otpVars, snapshot>>

\* mutant of ApproveFanOut: the reviewer is notified whatever the decision
ApproveFanOut_AlwaysReviewer(decision, senderEmail) ==
  << <<IF decision = "Approved" THEN "sender" ELSE "status", {senderEmail}>>,
     <<"reviewer", {ReviewerEmail}>> >>

\* the sendApprovalNotification calls of an approve: to the sender with role
\* "sender" and to the reviewer when Approved, to the sender alone otherwise
ApproveFanOut(decision, senderEmail) ==
  IF decision = "Approved"
    THEN << <<"sender", {senderEmail}>>, <<"reviewer", {ReviewerEmail}>> >>
    ELSE << <<"status", {senderEmail}>> >>

\* await getUserEmailByUsername(doc.uploaded_by), the awaited notifications, each
\* catching its own sendMail failure, then the response
ApproveNotify(p, dbOk, oks) ==
  /\ req[p].op = "approve" /\ req[p].pc = "notify"
  /\ LET out == ApproveFanOut(req[p].decision, getUserEmailByUsername(req[p].user, dbOk))
         sent == [i \in 1..Len(out) |-> Mail(out[i][1], out[i][2], oks[i])]
     IN  /\ \A i \in 1..Len(out) : oks[i] => Deliverable(out[i][2])
         /\ \A i \in (Len(out) + 1)..Len(oks) : oks[i]
         /\ docs' = (IF \A i \in 1..Len(out) : oks[i] THEN docs ELSE AfterMailFailure(docs))
         /\ req' = [req EXCEPT ![p] = Respond([@ EXCEPT !.mails = sent], 200)]
  /\ UNCHANGED <<drive, tmp, nUploads>>
  /\ UNCHANGED <<otpVars, snapshot>>

\* ------------------------------------------------------------- review
\* mutants of ReviewMatches: the WHERE clause without its approval_status test,
\* and without its uploaded_by test
ReviewMatches_NoGate(row, uploadedBy) == row.uploaded_by = uploadedBy
ReviewMatches_AnyUploader(row, uploadedBy) == row.approval_status = "Approved"

\* ... WHERE uploaded_by = ? AND approval_status = 'Approved'
ReviewMatches(row, uploadedBy) ==
  row.uploaded_by = uploadedBy /\ row.approval_status = "Approved"

\* UPDATE documents SET review_status = ?, reviewer = ?, review_time = ? WHERE ...
ReviewUpdateRows(d, uploadedBy, decision, reviewer, t) ==
  [i \in 1..Len(d) |->
     IF ReviewMatches(d[i], uploadedBy)
       THEN [d[i] EXCEPT !.review_status = decision, !.reviewer = reviewer,
                         !.review_time = t]
       ELSE d[i]]

\* the number of rows that UPDATE changes
ReviewAffectedRows(d, uploadedBy) ==
  Cardinality({i \in 1..Len(d) : ReviewMatches(d[i], uploadedBy)})

\* the handler up to its first await: review_time is read here
ReviewStart(p, uploadedBy, decision, reviewer) ==
  /\ Free(p)
  /\ req' = [req EXCEPT ![p] = [Idle EXCEPT !.op = "review", !.pc = "update",
                !.user = uploadedBy, !.decision = decision, !.actor = reviewer]]
  /\ UNCHANGED <<docs, drive, tmp, nUploads>>
  /\ UNCHANGED <<otpVars, snapshot>>

\* await db.execute(UPDATE ...): its result is not read, no row matching is no
\* error
ReviewUpdate(p, ok) ==
  /\ req[p].op = "review" /\ req[p].pc = "update"
  /\ IF ok
       THEN /\ docs' = ReviewUpdateRows(docs, req[p].user, req[p].decision,
                                        req[p].actor, Now)
            /\ req' = [req EXCEPT ![p].pc = "notify",
                          ![p].wrote = ReviewAffectedRows(docs, req[p].user) > 0]
       ELSE /\ req' = [req EXCEPT ![p] = Respond(@, 500)]
            /\ UNCHANGED docs
  /\ UNCHANGED <<drive, tmp, nUploads>>
  /\ UNCHANGED <<otpVars, snapshot>>

\* the response of review once sendMail has returned or thrown: sendMail is
\* awaited inside the handler's try, so its failure reaches the catch
ReviewMailStatus(ok) == IF ok THEN 200 ELSE 500

\* await getUserEmailByUsername(uploaded_by), then
\* await transporter.sendMail({to: [senderEmail, approverEmail], ...})
ReviewNotify(p, dbOk, ok) ==
  /\ req[p].op = "review" /\ req[p].pc = "notify"
  /\ docs' = (IF ok THEN docs ELSE AfterMailFailure(docs))
  /\ req' = [req EXCEPT ![p] =
               Respond(Notified(@, "review",
                                {getUserEmailByUsername(req[p].user, dbOk), ApproverEmail},
                                ok),
                       ReviewMailStatus(ok))]
  /\ UNCHANGED <<drive, tmp, nUploads>>
  /\ UNCHANGED <<otpVars, snapshot>>

\* ------------------------------------------------------------- admin-login
AdminNames == {"root", "nobody"}     \* username values a caller passes
AdminPasswords == {"pw", "bad"}     \* password values a caller passes

\* admins table: username -> password, NULL when there is no such row
AdminPassword(username) == IF username = "root" THEN "pw" ELSE NULL

\* rows.length && rows[0].password === password
AdminMatches(username, password) ==
  AdminPassword(username) # NULL /\ AdminPassword(username) = password

\* the handler up to its only await
AdminLoginStart(p, username, password) ==
  /\ Free(p)
  /\ req' = [req EXCEPT ![p] = [Idle EXCEPT !.op = "admin-login", !.pc = "query",
                !.user = username, !.password = password]]
  /\ UNCHANGED <<docs, drive, tmp, nUploads>>
  /\ UNCHANGED <<otpVars, snapshot>>

\* await db.execute(SELECT * FROM admins WHERE username = ?), in no try block,
\* then the comparison and the response
AdminLoginQuery(p, ok) ==
  /\ req[p].op = "admin-login" /\ req[p].pc = "query"
  /\ IF ok
       THEN req' = [req EXCEPT ![p] =
                      Respond(@, IF AdminMatches(req[p].user, req[p].password)
                                   THEN 200 ELSE 401)]
       ELSE \E out \in Rejected(req[p]) : req' = [req EXCEPT ![p] = out]
  /\ UNCHANGED <<docs, drive, tmp, nUploads>>
  /\ UNCHANGED <<otpVars, snapshot>>

\* ------------------------------------------------------------- OTP store
\* JavaScript values of the request bodies and of otpStore
Undefined == [type |-> "undefined", val |-> 0]
JsString(n) == [type |-> "string", val |-> n]
JsNumber(n) == [type |-> "number", val |-> n]
StrictEquals(a, b) == a.type = b.type /\ a.val = b.val       \* a === b

OtpMin == 100000
\* Math.floor(100000 + Math.random() * 900000).toString(), rnd the scaled random
generateOtp(rnd) == JsString(OtpMin + rnd)
Randoms == 0..(NumCodes - 1)
Codes == {generateOtp(rnd) : rnd \in Randoms}

Emails == {"alice@x"}                      \* email in the body, NULL when absent
Usernames == {"alice", "mallory"}          \* username in the body, NULL when absent
OtpProcs == 1..MaxOtpProcs
\* property keys of otpStore: an absent email reads the key "undefined"
Keys == Emails \cup {"undefined"}
KeyOf(email) == IF email = NULL THEN "undefined" ELSE email
\* enteredOtp in the body: a generated string, the same digits as a number, nothing
Candidates == Codes \cup {JsNumber(OtpMin), Undefined}

\* mutant of UserRows: the query has lost its email condition and its username
\* condition matches any name
UserRows_AnyUser(username, email) == 1

\* SELECT * FROM users WHERE username = ? AND email = ?
UserRows(username, email) ==
  IF UserEmail(username) # NULL /\ UserEmail(username) = email THEN 1 ELSE 0

OtpIdle == [pc |-> "idle", username |-> NULL, email |-> NULL, otp |-> Undefined,
            status |-> 0, message |-> NULL]
OtpFree(q) == otpReq[q].pc \in {"idle", "done"}
\* res.status(code).json({message})
OtpRespond(r, code, message) ==
  [r EXCEPT !.pc = "done", !.status = code, !.message = message]

\* mutant of StoreOtp: a code already stored for the email is kept
StoreOtp_KeepFirst(store, email, otp) ==
  IF store[KeyOf(email)] = Undefined THEN [store EXCEPT ![KeyOf(email)] = otp] ELSE store

\* otpStore[email] = otp
StoreOtp(store, email, otp) == [store EXCEPT ![KeyOf(email)] = otp]

\* lines 162-163 and the start of sendMail: generate, store, dispatch
SendOtpStore(q, email, rnd) ==
  /\ otpStore' = StoreOtp(otpStore, email, generateOtp(rnd))
  /\ otpLog' = [otpLog EXCEPT !.lastWrite[KeyOf(email)] = generateOtp(rnd),
                              !.used = @ \ {<<KeyOf(email), generateOtp(rnd)>>}]
  /\ otpReq' = [otpReq EXCEPT ![q] = [OtpIdle EXCEPT !.pc = "mail", !.email = email,
                                                      !.otp = generateOtp(rnd)]]

\* the handler up to its first await
SendOtpStart(q, username, email, rnd) ==
  /\ OtpFree(q)
  /\ IF username # NULL /\ email # NULL
       THEN /\ otpReq' = [otpReq EXCEPT ![q] =
                            [OtpIdle EXCEPT !.pc = "lookup", !.username = username,
                                            !.email = email]]
            /\ UNCHANGED <<otpStore, otpLog>>
       ELSE IF email = NULL
         THEN /\ otpReq' = [otpReq EXCEPT ![q] =
                              OtpRespond(OtpIdle, 400, "Email is required")]
              /\ UNCHANGED <<otpStore, otpLog>>
         ELSE SendOtpStore(q, email, rnd)
  /\ UNCHANGED <<wfVars, snapshot>>

\* await db.execute(SELECT ...), then the rows.length test, then lines 158-172
SendOtpLookup(q, ok, rnd) ==
  /\ otpReq[q].pc = "lookup"
  /\ IF ~ok
       THEN /\ otpReq' = [otpReq EXCEPT ![q] =
                            OtpRespond(OtpIdle, 500, "Failed to send OTP")]
            /\ UNCHANGED <<otpStore, otpLog>>
       ELSE IF UserRows(otpReq[q].username, otpReq[q].email) = 0
         THEN /\ otpReq' = [otpReq EXCEPT ![q] =
                              OtpRespond(OtpIdle, 400, "Username and email do not match")]
              /\ UNCHANGED <<otpStore, otpLog>>
         ELSE SendOtpStore(q, otpReq[q].email, rnd)
  /\ UNCHANGED <<wfVars, snapshot>>

\* await transporter.sendMail(mailOptions), then the response
SendOtpMail(q, ok) ==
  /\ otpReq[q].pc = "mail"
  /\ otpReq' = [otpReq EXCEPT ![q] =
                  IF ok THEN OtpRespond(OtpIdle, 200, "OTP sent successfully")
                        ELSE OtpRespond(OtpIdle, 500, "Failed to send OTP")]
  /\ UNCHANGED <<otpStore, otpLog>>
  /\ UNCHANGED <<wfVars, snapshot>>

\* enteredOtp === validOtp, with validOtp = otpStore[email]
VerifyMatches(store, email, enteredOtp) == StrictEquals(enteredOtp, store[KeyOf(email)])

\* mutant of DeleteOtp: the entry stays after a successful verification
DeleteOtp_Keep(store, email) == store

\* delete otpStore[email]
DeleteOtp(store, email) == [store EXCEPT ![KeyOf(email)] = Undefined]

\* POST /verify-otp: synchronous, one step
VerifyOtp(email, enteredOtp) ==
  /\ otpStore' = (IF VerifyMatches(otpStore, email, enteredOtp)
                    THEN DeleteOtp(otpStore, email) ELSE otpStore)
  /\ otpLog' = [otpLog EXCEPT
       !.verify = [entered |-> enteredOtp, valid |-> otpStore[KeyOf(email)],
                   status |-> IF VerifyMatches(otpStore, email, enteredOtp)
                                THEN 200 ELSE 400],
       !.used = IF VerifyMatches(otpStore, email, enteredOtp) /\ enteredOtp \in Codes
                  THEN @ \cup {<<KeyOf(email), enteredOtp>>} ELSE @]
  /\ UNCHANGED otpReq
  /\ UNCHANGED <<wfVars, snapshot>>

\* ------------------------------------------------------------- workflow spec
\* no concurrent run is under observation
NoSnapshot == [docs |-> <<>>, approve |-> Idle, review |-> Idle]

Init ==
  /\ snapshot = NoSnapshot
  /\ docs = <<>>
  /\ drive = [u \in 1..MaxUploads |-> "none"]
  /\ tmp = {}
  /\ nUploads = 0
  /\ req = [p \in Procs |-> Idle]
  /\ otpStore = [k \in Keys |-> Undefined]
  /\ otpReq = [q \in OtpProcs |-> OtpIdle]
  /\ otpLog = [lastWrite |-> [k \in Keys |-> Undefined], used |-> {},
               verify |-> [entered |-> Undefined, valid |-> Undefined, status |-> 0]]

Next ==
  \/ \E p \in Procs, u \in Uploaders, f \in Files : UploadStart(p, u, f)
  \/ \E p \in Procs, ok \in BOOLEAN : UploadDriveCreate(p, ok)
  \/ \E p \in Procs, ok \in BOOLEAN : UploadDrivePermission(p, ok)
  \/ \E p \in Procs, ok \in BOOLEAN : UploadInsert(p, ok)
  \/ \E p \in Procs, ok \in BOOLEAN : UploadNotify(p, ok)
  \/ \E p \in Procs, id \in DocIds, d \in Decisions, a \in Approvers :
        ApproveStart(p, id, d, a)
  \/ \E p \in Procs, ok \in BOOLEAN : ApproveUpdate(p, ok)
  \/ \E p \in Procs, ok \in BOOLEAN : ApproveSelect(p, ok)
  \/ \E p \in Procs, dbOk \in BOOLEAN, oks \in [1..2 -> BOOLEAN] : ApproveNotify(p, dbOk, oks)
  \/ \E p \in Procs, u \in Uploaders, d \in ReviewDecisions, r \in Reviewers :
        ReviewStart(p, u, d, r)
  \/ \E p \in Procs, ok \in BOOLEAN : ReviewUpdate(p, ok)
  \/ \E p \in Procs, dbOk \in BOOLEAN, ok \in BOOLEAN : ReviewNotify(p, dbOk, ok)

Spec == Init /\ [][Next]_vars

\* ------------------------------------------------------------- POST spec
\* The POST handlers /upload and /admin-login on their own. admin-login reads the
\* admins table only; approve and review neither add a documents row nor touch
\* Drive or uploads/, so what an upload stores is decided here.
PostNext ==
  \/ \E p \in Procs, u \in Uploaders, f \in Files : UploadStart(p, u, f)
  \/ \E p \in Procs, ok \in BOOLEAN : UploadDriveCreate(p, ok)
  \/ \E p \in Procs, ok \in BOOLEAN : UploadDrivePermission(p, ok)
  \/ \E p \in Procs, ok \in BOOLEAN : UploadInsert(p, ok)
  \/ \E p \in Procs, ok \in BOOLEAN : UploadNotify(p, ok)
  \/ \E p \in Procs, u \in AdminNames, pw \in AdminPasswords : AdminLoginStart(p, u, pw)
  \/ \E p \in Procs, ok \in BOOLEAN : AdminLoginQuery(p, ok)

PostSpec == Init /\ [][PostNext]_vars

\* ------------------------------------------------------------- concurrent spec
\* An approve and a review that are both in flight, each at its UPDATE, over a
\* table that uploads, approves and reviews have produced: the state when the
\* second of the two requests has arrived.
\* approval_status is stored as it arrives in the body: the values of the form and
\* one the form does not offer
AnyDecisions == Decisions \cup {"Rejected"}

\* approved_by is bound as it arrives in the body: a name, or a JSON null, which
\* the driver binds as SQL NULL
AnyApprovers == Approvers \cup {NULL}

RowHistories == {"uploaded", "approved", "unapproved", "reviewed", "withdrawn"}

\* the row a document has after that history, as the handlers write it
RowAfter(uploadedBy, h) ==
  LET new == InsertDocument(<<>>, File("a", ".PDF"), NoLink, uploadedBy, Now)
      app == ApproveUpdateRows(new, 1, "Approved", "bob", Now)
      una == ApproveUpdateRows(new, 1, "Unapproved", "bob", Now)
      rev == ReviewUpdateRows(app, uploadedBy, "Rejected", "carol", Now)
      wit == ApproveUpdateRows(rev, 1, "Unapproved", "bob", Now)
  IN  CASE h = "uploaded" -> new[1]
        [] h = "approved" -> app[1]
        [] h = "unapproved" -> una[1]
        [] h = "reviewed" -> rev[1]
        [] h = "withdrawn" -> wit[1]

Tables ==
  UNION {
    { [i \in 1..n |-> [RowAfter(us[i], hs[i]) EXCEPT !.document_link = DocumentLink(i)]] :
        us \in [1..n -> Uploaders], hs \in [1..n -> RowHistories] } :
    n \in 1..MaxUploads }

ConcInit ==
  /\ docs \in Tables
  /\ nUploads = Len(docs)
  /\ drive = [u \in 1..MaxUploads |-> IF u <= Len(docs) THEN "public" ELSE "none"]
  /\ tmp = {}
  /\ \E id \in DocIds, d \in AnyDecisions, a \in AnyApprovers,
        u \in Uploaders, rd \in ReviewDecisions, r \in Reviewers :
       req = [p \in Procs |->
                IF p = 1 THEN [Idle EXCEPT !.op = "approve", !.pc = "update", !.id = id,
                                           !.decision = d, !.actor = a]
                ELSE IF p = 2 THEN [Idle EXCEPT !.op = "review", !.pc = "update",
                                                !.user = u, !.decision = rd, !.actor = r]
                ELSE Idle]
  /\ snapshot = [docs |-> docs, approve |-> req[1], review |-> req[2]]
  /\ otpStore = [k \in Keys |-> Undefined]
  /\ otpReq = [q \in OtpProcs |-> OtpIdle]
  /\ otpLog = [lastWrite |-> [k \in Keys |-> Undefined], used |-> {},
               verify |-> [entered |-> Undefined, valid |-> Undefined, status |-> 0]]

ConcNext ==
  \/ \E p \in Procs, ok \in BOOLEAN : ApproveUpdate(p, ok)
  \/ \E p \in Procs, ok \in BOOLEAN : ApproveSelect(p, ok)
  \/ \E p \in Procs, dbOk \in BOOLEAN, oks \in [1..2 -> BOOLEAN] : ApproveNotify(p, dbOk, oks)
  \/ \E p \in Procs, ok \in BOOLEAN : ReviewUpdate(p, ok)
  \/ \E p \in Procs, dbOk \in BOOLEAN, ok \in BOOLEAN : ReviewNotify(p, dbOk, ok)

ConcSpec == ConcInit /\ [][ConcNext]_vars

\* ------------------------------------------------------------- OTP spec
OtpNext ==
  \/ \E q \in OtpProcs, u \in Usernames \cup {NULL}, e \in Emails \cup {NULL},
         rnd \in Randoms : SendOtpStart(q, u, e, rnd)
  \/ \E q \in OtpProcs, ok \in BOOLEAN, rnd \in Randoms : SendOtpLookup(q, ok, rnd)
  \/ \E q \in OtpProcs, ok \in BOOLEAN : SendOtpMail(q, ok)
  \/ \E e \in Emails \cup {NULL}, c \in Candidates : VerifyOtp(e, c)

OtpSpec == Init /\ [][OtpNext]_vars

\* ------------------------------------------------------------- properties
Rows == 1..Len(docs)
\* request p takes a step
Moves(p) == req'[p] # req[p]
FailedMail(r) == \E i \in 1..Len(r.mails) : ~r.mails[i].ok
ReviewColumns(row) == <<row.review_status, row.reviewer, row.review_time>>

\* C1 (as claimed): in every reachable state a document whose review_status is
\* not Pending has approval_status = Approved.
C1_Original ==
  \A i \in Rows : docs[i].review_status # "Pending" => docs[i].approval_status = "Approved"

\* C1 (amended): the review columns of a document are written only while its
\* approval_status is Approved, and a new document starts with review_status
\* Pending; a later approve with another decision leaves review_status as it is.
C1_ReviewWrittenOnlyWhileApproved ==
  [][/\ \A i \in Rows :
          ReviewColumns(docs'[i]) # ReviewColumns(docs[i])
            => docs[i].approval_status = "Approved"
     /\ \A i \in (Len(docs) + 1)..Len(docs') : docs'[i].review_status = "Pending"]_vars

C1_Witness ==
  \E i \in Rows : /\ docs[i].review_status = "Rejected"
                  /\ docs[i].approval_status = "Unapproved"
                  /\ docs[i].reviewer # NULL

\* C2: an upload that reports success has added exactly one document, Pending and
\* Pending with a non-null link, in its insert step; no other step of the upload
\* creates or changes a document.
C2_UploadAddsOneDocument ==
  [][\A p \in Procs :
       (req[p].op = "upload" /\ Moves(p)) =>
          /\ IF req[p].pc = "insert" /\ req'[p].pc = "notify"
               THEN /\ Len(docs') = Len(docs) + 1
                    /\ SubSeq(docs', 1, Len(docs)) = docs
                    /\ docs'[Len(docs')].approval_status = "Pending"
                    /\ docs'[Len(docs')].review_status = "Pending"
                    /\ docs'[Len(docs')].document_link # NoLink
                    /\ docs'[Len(docs')].document_link = DocumentLink(req[p].id)
               ELSE docs' = docs
          /\ (req[p].pc = "notify" /\ req'[p].status = 200) =>
               Cardinality({i \in 1..Len(docs') :
                              docs'[i].document_link = DocumentLink(req[p].id)}) = 1
          /\ (req[p].pc # "done" /\ req'[p].status = 200) => req[p].pc = "notify"]_vars

C2_Witness ==
  \E p \in Procs : /\ req[p].op = "upload" /\ req[p].status = 200
                   /\ Len(docs) = 2
                   /\ docs[2].approval_status = "Pending"
                   /\ docs[1].approval_status = "Approved"

\* C3: the UPDATE of a review for uploader U changes only the review columns, and
\* only of documents of U that are Approved when it runs; every other step of the
\* review changes no document.
C3_ReviewFrame ==
  [][\A p \in Procs :
       (req[p].op = "review" /\ Moves(p)) =>
          /\ Len(docs') = Len(docs)
          /\ \A i \in Rows :
               docs'[i] # docs[i] =>
                 /\ req[p].pc = "update"
                 /\ docs[i].uploaded_by = req[p].user
                 /\ docs[i].approval_status = "Approved"
                 /\ docs'[i] = [docs[i] EXCEPT !.review_status = req[p].decision,
                                               !.reviewer = req[p].actor,
                                               !.review_time = Now]]_vars

C3_Witness ==
  \E p \in Procs :
    /\ req[p].op = "review" /\ req[p].pc = "notify"
    /\ \E i, j \in Rows :
         /\ docs[i].uploaded_by = req[p].user /\ docs[i].reviewer # NULL
         /\ docs[j].uploaded_by = req[p].user /\ docs[j].approval_status = "Pending"
         /\ docs[j].reviewer = NULL

\* C4: the UPDATE of an approve sets the three approval columns of the document
\* with that id in one step and changes nothing else; when no document has the id
\* the request ends with 404 in that step, no document changed and no mail sent.
C4_ApproveUpdate ==
  [][\A p \in Procs :
       (req[p].op = "approve" /\ Moves(p)) =>
          IF req[p].pc = "update" /\ req'[p].status # 500
            THEN IF req[p].id \in Rows
                   THEN /\ Len(docs') = Len(docs)
                        /\ \A i \in Rows : i # req[p].id => docs'[i] = docs[i]
                        /\ docs'[req[p].id] =
                             [docs[req[p].id] EXCEPT !.approval_status = req[p].decision,
                                                     !.approved_by = req[p].actor,
                                                     !.approval_time = Now]
                        /\ req'[p].pc = "select"
                   ELSE /\ docs' = docs
                        /\ req'[p].pc = "done" /\ req'[p].status = 404
                        /\ req'[p].mails = <<>>
            ELSE docs' = docs]_vars

C4_Witness ==
  \E p \in Procs : /\ req[p].op = "approve" /\ req[p].status = 404
                   /\ Len(docs) = 1 /\ docs[1].approval_status = "Approved"

\* C5: an approve that answers 200 has called sendMail exactly twice when the
\* decision is Approved (first for the uploader, then for the reviewer) and exactly
\* once otherwise (for the uploader only).
C5_ApproveFanOut ==
  \A p \in Procs :
    (req[p].op = "approve" /\ req[p].status = 200) =>
       IF req[p].decision = "Approved"
         THEN /\ Len(req[p].mails) = 2
              /\ req[p].mails[1].role = "sender"
              /\ req[p].mails[1].to \subseteq {UserEmail(u) : u \in Uploaders}
              /\ req[p].mails[2].to = {ReviewerEmail}
         ELSE /\ Len(req[p].mails) = 1
              /\ req[p].mails[1].role = "status"
              /\ req[p].mails[1].to \subseteq {UserEmail(u) : u \in Uploaders}

C5_Witness ==
  \E p, q \in Procs :
    /\ req[p].op = "approve" /\ req[p].status = 200 /\ req[p].decision = "Approved"
    /\ Len(req[p].mails) = 2 /\ req[p].mails[1].ok /\ req[p].mails[2].ok
    /\ req[q].op = "approve" /\ req[q].status = 200 /\ req[q].decision = "Unapproved"
    /\ Len(req[q].mails) = 1

\* C6 (as claimed): a request that persisted its state change and whose
\* notification then failed still answers with success.
C6_Original ==
  \A p \in Procs :
    (req[p].pc = "done" /\ req[p].wrote /\ FailedMail(req[p])) => req[p].status = 200

\* C7: the notification step of upload, approve and review leaves the documents
\* table as it was, whether sendMail succeeded or failed.
C7_NotifyKeepsDocuments ==
  [][\A p \in Procs : (req[p].pc = "notify" /\ Moves(p)) => docs' = docs]_vars

C7_Witness ==
  \E p \in Procs :
    /\ req[p].op = "review" /\ req[p].pc = "done" /\ req[p].wrote /\ FailedMail(req[p])
    /\ \E i \in Rows : docs[i].review_status = "Approved" /\ docs[i].reviewer # NULL

\* C8 (as claimed): a verify succeeds exactly when a code is stored for the email
\* and equals the candidate.
C8_Original ==
  otpLog.verify.status # 0 =>
    (otpLog.verify.status = 200
       <=> (otpLog.verify.valid # Undefined
            /\ StrictEquals(otpLog.verify.entered, otpLog.verify.valid)))

\* C9: a code that has verified for an email does not verify for it again until
\* a new request stores that code for the email again.
C9_SingleUse ==
  \A e \in Emails, c \in Codes :
    <<KeyOf(e), c>> \in otpLog.used => ~VerifyMatches(otpStore, e, c)

C9_Witness ==
  /\ otpLog.verify.status = 400 /\ otpLog.verify.entered \in Codes
  /\ otpLog.verify.valid \in Codes
  /\ \E e \in Emails : /\ <<KeyOf(e), otpLog.verify.entered>> \in otpLog.used
                       /\ otpStore[KeyOf(e)] = otpLog.verify.valid

\* C10: the store holds for an email nothing or the code of the request that wrote
\* last, and no other code verifies for that email.
C10_LastWriterWins ==
  \A e \in Emails :
    /\ otpStore[KeyOf(e)] \in {Undefined, otpLog.lastWrite[KeyOf(e)]}
    /\ \A c \in Codes :
         VerifyMatches(otpStore, e, c) => c = otpLog.lastWrite[KeyOf(e)]

C10_Witness ==
  \E q1, q2 \in OtpProcs :
    /\ otpReq[q1].pc = "mail" /\ otpReq[q2].pc = "mail"
    /\ otpReq[q1].email = otpReq[q2].email
    /\ otpReq[q1].otp # otpReq[q2].otp
    /\ otpStore[KeyOf(otpReq[q1].email)] = otpReq[q2].otp
    /\ ~VerifyMatches(otpStore, otpReq[q1].email, otpReq[q1].otp)

\* C11: a send-otp whose username and email are both given and match no user ends
\* in the step its query returns, with 400 and the mismatch message (500 when the
\* query itself fails); that step stores no code and the request never reaches
\* sendMail.
C11_MismatchStoresNothing ==
  [][\A q \in OtpProcs :
       (/\ otpReq[q].pc = "lookup" /\ otpReq'[q] # otpReq[q]
        /\ UserEmail(otpReq[q].username) # otpReq[q].email) =>
          /\ otpStore' = otpStore
          /\ otpReq'[q].pc = "done"
          /\ \/ otpReq'[q].status = 400
                /\ otpReq'[q].message = "Username and email do not match"
             \/ otpReq'[q].status = 500]_vars

C11_Witness ==
  \E q \in OtpProcs, e \in Emails :
    /\ otpReq[q].pc = "done" /\ otpReq[q].status = 400
    /\ otpReq[q].message = "Username and email do not match"
    /\ otpStore[KeyOf(e)] \in Codes

\* an upload whose handler is between two of its awaits
UploadRunning(p) ==
  /\ req[p].op = "upload"
  /\ req[p].pc \in {"drive_create", "drive_permission", "insert", "notify"}

\* C12: only a file whose name ends in .pdf (in any case) gets past multer: every
\* upload that reaches the Drive calls or the INSERT carries such a file and so does
\* every documents row; an upload answered on arrival is answered 500 and leaves
\* uploads/, Drive and the documents table as they were.
C12_NonPdfStoresNothing ==
  /\ [](/\ \A p \in Procs : UploadRunning(p) => ToLowerCase(req[p].file.ext) = ".pdf"
        /\ \A i \in Rows : ToLowerCase(docs[i].document_name.ext) = ".pdf")
  /\ [][\A p \in Procs :
          (Moves(p) /\ Free(p) /\ req'[p].op = "upload" /\ req'[p].pc = "done") =>
             /\ req'[p].status = 500
             /\ UNCHANGED <<docs, drive, tmp, nUploads>>]_vars

\* a non-PDF was refused before any upload was accepted, while a document exists
C12_Witness ==
  \E p \in Procs :
    /\ req[p].op = "upload" /\ req[p].pc = "done" /\ req[p].status = 500
    /\ req[p].mails = <<>> /\ ~req[p].wrote
    /\ \A u \in 1..nUploads : \E i \in Rows : docs[i].document_link = DocumentLink(u)
    /\ nUploads > 0

\* the upload that multer numbered u has been answered
UploadOver(u) == u \in 1..nUploads /\ \A p \in Procs : ~(UploadRunning(p) /\ req[p].id = u)
\* the documents row of upload u exists
Recorded(u) == \E i \in Rows : docs[i].document_link = DocumentLink(u)

\* C13 (as claimed): once an upload whose Drive call failed (the file was not
\* created there, or not made public) is over, it has no documents row and its
\* local copy in uploads/ is gone.
C13_Original ==
  \A u \in 1..nUploads :
    (UploadOver(u) /\ drive[u] # "public") => (~Recorded(u) /\ u \notin tmp)

\* C14 (as claimed): a review whose UPDATE ran and matched no row (its uploader has
\* no Approved document) is answered with success.
C14_Original ==
  \A p \in Procs :
    (/\ req[p].op = "review" /\ req[p].pc = "done"
     /\ ~req[p].wrote /\ req[p].mails # <<>>) => req[p].status = 200

\* C15 (as claimed): an approve or a review whose uploader resolves to no email
\* makes no sendMail call for that uploader: no call of theirs has the unresolved
\* (null) address among its recipients.
C15_Original ==
  \A p \in Procs :
    req[p].op \in {"approve", "review"} =>
      \A i \in 1..Len(req[p].mails) : NULL \notin req[p].mails[i].to

\* the next await of request p returns or throws
Resume(p) ==
  \/ \E ok \in BOOLEAN : UploadDriveCreate(p, ok)
  \/ \E ok \in BOOLEAN : UploadDrivePermission(p, ok)
  \/ \E ok \in BOOLEAN : UploadInsert(p, ok)
  \/ \E ok \in BOOLEAN : UploadNotify(p, ok)
  \/ \E ok \in BOOLEAN : ApproveUpdate(p, ok)
  \/ \E ok \in BOOLEAN : ApproveSelect(p, ok)
  \/ \E dbOk \in BOOLEAN, oks \in [1..2 -> BOOLEAN] : ApproveNotify(p, dbOk, oks)
  \/ \E ok \in BOOLEAN : ReviewUpdate(p, ok)
  \/ \E dbOk \in BOOLEAN, ok \in BOOLEAN : ReviewNotify(p, dbOk, ok)
  \/ \E ok \in BOOLEAN : AdminLoginQuery(p, ok)

\* C16 (as claimed): a request that has been received and not yet answered is never
\* stuck: as long as its external calls return or fail it has a next step, so it
\* goes on to its one response.
C16_Original ==
  \A p \in Procs : req[p].pc \notin {"idle", "done"} => ENABLED Resume(p)

\* the two requests of a concurrent run, and whether the UPDATE of each was executed
ConcDone == req[1].pc = "done" /\ req[2].pc = "done"
ApproveExecuted == req[1].wrote
ReviewExecuted == req[2].mails # <<>>

\* row i of the table after the approve and the review of the snapshot have run one
\* after the other, the approve first ("AR") or the review first ("RA"), column by
\* column as the two SQL statements read
SerialRow(order, i) ==
  LET row == snapshot.docs[i]
      a == snapshot.approve
      r == snapshot.review
      hit == ApproveExecuted /\ i = a.id
      statusSeen == IF order = "AR" /\ hit THEN a.decision ELSE row.approval_status
      reviewed == ReviewExecuted /\ row.uploaded_by = r.user /\ statusSeen = "Approved"
  IN  [row EXCEPT
         !.approval_status = IF hit THEN a.decision ELSE @,
         !.approved_by = IF hit THEN a.actor ELSE @,
         !.approval_time = IF hit THEN Now ELSE @,
         !.review_status = IF reviewed THEN r.decision ELSE @,
         !.reviewer = IF reviewed THEN r.actor ELSE @,
         !.review_time = IF reviewed THEN Now ELSE @]

SerialTable(order) == [i \in 1..Len(snapshot.docs) |-> SerialRow(order, i)]

\* C17: when an approve and a review that were in flight together have both been
\* answered, the documents table is the one that running them one after the other
\* gives, in one of the two orders.
C17_Serializable ==
  ConcDone => docs \in {SerialTable("AR"), SerialTable("RA")}

\* both writes were executed and the order decided the result
C17_Witness ==
  /\ ConcDone /\ ApproveExecuted /\ ReviewExecuted
  /\ docs = SerialTable("RA") /\ docs # SerialTable("AR")

\* C18 (as claimed): the approval_status of every document is Pending, Approved or
\* Unapproved, whatever value an approve request carries.
C18_Original ==
  \A i \in Rows : docs[i].approval_status \in {"Pending", "Approved", "Unapproved"}

\* C19: an upload whose INSERT fails after Drive took the file is answered in that
\* step with 500, adds no documents row, and leaves the file on Drive, public; no
\* later step removes a Drive file, and no upload is answered 200 without its row.
C19_InsertFailureLeavesOrphan ==
  /\ [][\A p \in Procs :
          (/\ req[p].op = "upload" /\ req[p].pc = "insert" /\ Moves(p)
           /\ ~\E i \in 1..Len(docs') : docs'[i].document_link = DocumentLink(req[p].id)) =>
             /\ req'[p].pc = "done" /\ req'[p].status = 500
             /\ docs' = docs
             /\ drive[req[p].id] = "public" /\ drive' = drive]_vars
  /\ [][\A u \in 1..MaxUploads : drive[u] = "public" => drive'[u] = "public"]_vars
  /\ [][\A p \in Procs :
          (req[p].op = "upload" /\ Moves(p) /\ req'[p].pc = "done"
           /\ req'[p].status = 200) =>
             \E i \in 1..Len(docs') : docs'[i].document_link = DocumentLink(req[p].id)]_vars

\* an upload has ended with 500 and its public Drive file has no documents row
C19_Witness ==
  \E p \in Procs, u \in 1..nUploads :
    /\ req[p].op = "upload" /\ req[p].pc = "done" /\ req[p].status = 500
    /\ UploadOver(u) /\ drive[u] = "public" /\ ~Recorded(u)

\* C20: the local copy of an upload is missing from uploads/ only if the documents
\* row of that upload exists: fs.unlinkSync runs after the INSERT has succeeded.
C20_UnlinkAfterInsert ==
  \A u \in 1..nUploads : u \notin tmp => Recorded(u)

\* one upload was recorded and its copy deleted, another failed and kept its copy
C20_Witness ==
  \E u, v \in 1..nUploads :
    /\ u \notin tmp /\ Recorded(u)
    /\ UploadOver(v) /\ v \in tmp /\ ~Recorded(v)

\* C21 (as claimed): in every reachable state each document has approved_by and
\* approval_time both NULL or both set.
C21_Original ==
  \A i \in Rows : (docs[i].approved_by = NULL) <=> (docs[i].approval_time = NoTime)

====
